---- MODULE Spec2Model ----
(***************************************************************************)
(* Simple_Speak: the synthesis handler (src/tts.py, TTSHandler) and the    *)
(* command-line program around it (src/main.py).                           *)
(*                                                                         *)
(* Python values are records [kind, s]: None, a str (s is the sequence of  *)
(* its path components, of its characters for a line of text, or the one   *)
(* identifier for a speaker id), a non-string JSON value, or an opaque     *)
(* engine object.  The external engine, the file system calls and the      *)
(* playback routine are fallible: each call made draws its outcome from    *)
(* "ok", "Exception" (any subclass of Exception) and, for the blocking     *)
(* calls, "KeyboardInterrupt" (a BaseException, which `except Exception`   *)
(* does not catch).  An operation is therefore the set of its possible     *)
(* results.                                                                *)
(***************************************************************************)
EXTENDS Integers, Sequences, FiniteSets, TLC

VARIABLES pc,             \* position of main(), or "harness" when the handler is driven directly
          constructed,    \* TRUE once TTSHandler.__init__ has returned
          interface,      \* self.interface
          sampler_config, \* self.sampler_config
          config,         \* the dict returned by load_config
          config_file,    \* what config.json held when load_config read it
          fs,             \* the file system: a set of entries [path, type, data]
          clock,          \* the last value datetime.now() returned, in ticks
          last,           \* the last call of speak: arguments and result
          turn,           \* the last iteration of the loop of main()
          everFailed,     \* TRUE once a call of speak made on the handler
                          \* directly (Speak) has returned False
          printed         \* the last message main() printed for the user

vars == <<pc, constructed, interface, sampler_config, config, config_file,
          fs, clock, last, turn, everFailed, printed>>

(***************************************************************************)
(* Bounds of the model.                                                    *)
(***************************************************************************)
MaxClock == 2        \* datetime.now() returns 0..MaxClock ticks, in any order
TicksPerSec == 2     \* clock ticks in one second of the timestamp

(***************************************************************************)
(* Python values.                                                          *)
(***************************************************************************)
None == [kind |-> "None", s |-> <<>>]
Str(s) == [kind |-> "str", s |-> s]
\* a value that no path function accepts (a list, an object, a float): the
\* list ["x"]
NonStr == [kind |-> "list", s |-> <<"x">>]
\* an int, or a bool (True is 1, False is 0)
IntValue(n) == [kind |-> "int", s |-> <<n>>]
\* an int outside the range of a C int (2**31 or more, below -2**31)
HugeInt == [kind |-> "hugeint", s |-> <<>>]
Interface == [kind |-> "Interface", s |-> <<>>]
SamplerConfig == [kind |-> "SamplerConfig", s |-> <<>>]

\* bool(v): None, "", [], 0 and False are false, every other value is true
Truthy(v) ==
    CASE v.kind = "None" -> FALSE
      [] v.kind \in {"str", "list"} -> v.s # <<>>
      [] v.kind = "int" -> v.s # <<0>>
      [] OTHER -> TRUE

DEFAULT_VOICE == "EN-FEMALE-1-NEUTRAL"
OTHER_VOICE == "EN-MALE-1-NEUTRAL"
CACHE_DIR == "cache"
CONFIG_FILE == "config.json"

Outcomes == {"ok", "Exception", "KeyboardInterrupt"}
Failures == {"ok", "Exception"}

(***************************************************************************)
(* The file system.                                                        *)
(***************************************************************************)
Entry(p, t, d) == [path |-> p, type |-> t, data |-> d]

\* os.path.exists on a str path ("" does not exist)
os_path_exists(p, fsys) == \E e \in fsys : e.path = p

\* the file descriptors that are open while speak runs: the standard streams
OpenFds == {0, 1, 2}

\* the descriptor of config.json while load_config reads it (opened at
\* main.py:32, the lowest one free)
ConfigFd == 3

\* os.path.exists raises on a value that is no str and no file descriptor:
\* TypeError on a list, an object or a float, OverflowError on an int that
\* no C int holds
ExistsRaises(v) == v.kind \notin {"str", "int"}

ExistsError(v) == IF v.kind = "hugeint" THEN "OverflowError" ELSE "TypeError"

\* os.path.exists on a str or an int: an int is taken as a file descriptor
\* and looked up among the open ones, fds
PathExists(v, fsys, fds) ==
    IF v.kind = "int" THEN v.s[1] \in fds ELSE os_path_exists(v.s, fsys)

\* os.path.dirname on a str path: everything before the last component
os_path_dirname(p) == IF p = <<>> THEN <<>> ELSE SubSeq(p, 1, Len(p) - 1)

\* os.makedirs: the directory and every missing parent
os_makedirs(p, fsys) ==
    fsys \cup {Entry(SubSeq(p, 1, k), "dir", <<>>) :
                  k \in {j \in 1..Len(p) : ~os_path_exists(SubSeq(p, 1, j), fsys)}}

\* output_audio.save: the file at p now holds the audio of `text`
audio_save(p, text, fsys) ==
    {e \in fsys : e.path # p} \cup {Entry(p, "file", text)}

Files(fsys) == {e \in fsys : e.type = "file"}

(***************************************************************************)
(* TTSHandler.speak                                                        *)
(***************************************************************************)
Call(op, arg, out) == [op |-> op, arg |-> arg, out |-> out]

ClonedSpeaker(voice_file) == [kind |-> "ClonedSpeaker", s |-> voice_file.s]
DefaultSpeaker(id) == [kind |-> "DefaultSpeaker", s |-> id.s]

\* the result of a call of speak
Result(ret, raised, calls, fsys, self, speaker, id) ==
    [ret |-> ret, raised |-> raised, calls |-> calls, fs |-> fsys, self |-> self,
     speaker |-> speaker, final_speaker_id_to_load |-> id]

\* lines 109-117: the try block that ensures the output directory
EnsureOutputDir(output_file, fsys) ==
    IF output_file.kind # "str"
    THEN {[exc |-> "Exception", calls |-> <<>>, fs |-> fsys]}    \* TypeError in dirname
    ELSE LET output_dir == os_path_dirname(output_file.s) IN
         IF output_dir # <<>> /\ ~os_path_exists(output_dir, fsys)
         THEN {[exc |-> o,
                calls |-> <<Call("makedirs", Str(output_dir), o)>>,
                fs |-> IF o = "ok" THEN os_makedirs(output_dir, fsys) ELSE fsys]
                  : o \in Failures}
         ELSE {[exc |-> "ok", calls |-> <<>>, fs |-> fsys]}

\* CloneStep with a second attempt after a failed create_speaker
CloneStep_Retries(voice_file, fsys) ==
    IF ~Truthy(voice_file)
    THEN {[exc |-> "ok", speaker |-> None, calls |-> <<>>]}
    ELSE IF ExistsRaises(voice_file)
    THEN {[exc |-> "Exception", speaker |-> None, calls |-> <<>>]}
    ELSE IF ~PathExists(voice_file, fsys, OpenFds)
    THEN {[exc |-> "ok", speaker |-> None, calls |-> <<>>]}
    ELSE {[exc |-> IF o = "KeyboardInterrupt" THEN o ELSE "ok",
           speaker |-> IF o = "ok" /\ voice_file.kind = "str"
                       THEN ClonedSpeaker(voice_file) ELSE None,
           calls |-> IF o = "Exception"
                     THEN <<Call("create_speaker", voice_file, o),
                            Call("create_speaker", voice_file, o)>>
                     ELSE <<Call("create_speaker", voice_file, o)>>] : o \in Outcomes}

\* lines 124-134: step 1, the voice cloning file. After create_speaker
\* returned, os.path.basename (line 129) raises TypeError on a voice_file that
\* is an int; line 132 catches it and resets the speaker.
CloneStep(voice_file, fsys) ==
    IF ~Truthy(voice_file)
    THEN {[exc |-> "ok", speaker |-> None, calls |-> <<>>]}
    ELSE IF ExistsRaises(voice_file)
    THEN {[exc |-> "Exception", speaker |-> None, calls |-> <<>>]}  \* os.path.exists raises
    ELSE IF ~PathExists(voice_file, fsys, OpenFds)
    THEN {[exc |-> "ok", speaker |-> None, calls |-> <<>>]}
    ELSE {[exc |-> IF o = "KeyboardInterrupt" THEN o ELSE "ok",
           speaker |-> IF o = "ok" /\ voice_file.kind = "str"
                       THEN ClonedSpeaker(voice_file) ELSE None,
           calls |-> <<Call("create_speaker", voice_file, o)>>] : o \in Outcomes}

\* TargetIdentifier ignoring the caller's speaker_id
TargetIdentifier_AlwaysDefault(speaker_id) == Str(<<DEFAULT_VOICE>>)

\* lines 138-147: the identifier to load
TargetIdentifier(speaker_id) ==
    IF Truthy(speaker_id) THEN speaker_id ELSE Str(<<DEFAULT_VOICE>>)

\* LoadStep as the docstring of speak words it: a failed load of another
\* identifier is followed by a load of DEFAULT_VOICE
LoadStep_FallsBackToDefault(id) ==
    IF Truthy(id)
    THEN UNION {
      IF o = "Exception" /\ id # Str(<<DEFAULT_VOICE>>)
      THEN {[exc |-> IF o2 = "KeyboardInterrupt" THEN o2 ELSE "ok",
             speaker |-> IF o2 = "ok" THEN DefaultSpeaker(Str(<<DEFAULT_VOICE>>)) ELSE None,
             calls |-> <<Call("load_default_speaker", id, o),
                         Call("load_default_speaker", Str(<<DEFAULT_VOICE>>), o2)>>]
               : o2 \in Outcomes}
      ELSE {[exc |-> IF o = "KeyboardInterrupt" THEN o ELSE "ok",
             speaker |-> IF o = "ok" THEN DefaultSpeaker(id) ELSE None,
             calls |-> <<Call("load_default_speaker", id, o)>>]}
      : o \in Outcomes}
    ELSE {[exc |-> "ok", speaker |-> None, calls |-> <<>>]}

\* lines 149-164: step 3, load the determined speaker id
LoadStep(id) ==
    IF Truthy(id)
    THEN {[exc |-> IF o = "KeyboardInterrupt" THEN o ELSE "ok",
           speaker |-> IF o = "ok" THEN DefaultSpeaker(id) ELSE None,
           calls |-> <<Call("load_default_speaker", id, o)>>] : o \in Outcomes}
    ELSE {[exc |-> "ok", speaker |-> None, calls |-> <<>>]}

\* ResolveSpeaker with a provided speaker_id taking priority over the clone
ResolveSpeaker_IdOverridesClone(speaker_id, voice_file, fsys) ==
    UNION {
      IF c.exc # "ok" \/ (c.speaker # None /\ ~Truthy(speaker_id))
      THEN {[exc |-> c.exc, speaker |-> c.speaker, id |-> None, calls |-> c.calls]}
      ELSE LET final_speaker_id_to_load == TargetIdentifier(speaker_id) IN
           {[exc |-> l.exc, speaker |-> l.speaker, id |-> final_speaker_id_to_load,
             calls |-> c.calls \o l.calls] : l \in LoadStep(final_speaker_id_to_load)}
      : c \in CloneStep(voice_file, fsys)}

\* lines 124-164: speaker resolution
ResolveSpeaker(speaker_id, voice_file, fsys) ==
    UNION {
      IF c.exc # "ok" \/ c.speaker # None
      THEN {[exc |-> c.exc, speaker |-> c.speaker, id |-> None, calls |-> c.calls]}
      ELSE LET final_speaker_id_to_load == TargetIdentifier(speaker_id) IN
           {[exc |-> l.exc, speaker |-> l.speaker, id |-> final_speaker_id_to_load,
             calls |-> c.calls \o l.calls] : l \in LoadStep(final_speaker_id_to_load)}
      : c \in CloneStep(voice_file, fsys)}

\* lines 172-187: configure generation, generate, save
Generate(self, text, output_file, speaker, fsys) ==
    UNION {
      LET c1 == <<Call("GenerationConfig", speaker, g)>> IN
      IF g # "ok" THEN {[exc |-> g, calls |-> c1, fs |-> fsys]}
      ELSE UNION {
        LET c2 == c1 \o <<Call("generate", speaker, a)>> IN
        IF a # "ok" THEN {[exc |-> a, calls |-> c2, fs |-> fsys]}
        ELSE {[exc |-> s,
               calls |-> c2 \o <<Call("save", output_file, s)>>,
               fs |-> IF s = "ok" THEN audio_save(output_file.s, text.s, fsys) ELSE fsys]
                 : s \in Outcomes}
        : a \in Outcomes}
      : g \in Failures}

\* SpeakExcept without the handler of line 189
SpeakExcept_Propagates(r, self) ==
    CASE r.exc = "ok" -> Result(r.ret, "none", r.calls, r.fs, self, r.speaker, r.id)
      [] OTHER -> Result(FALSE, r.exc, r.calls, r.fs, self, r.speaker, r.id)

\* SpeakExcept with a handler that drops the interface after a failure
SpeakExcept_ResetsInterface(r, self) ==
    CASE r.exc = "ok" -> Result(r.ret, "none", r.calls, r.fs, self, r.speaker, r.id)
      [] r.exc = "Exception" ->
           Result(FALSE, "none", r.calls, r.fs,
                  [interface |-> None, sampler_config |-> None], r.speaker, r.id)
      [] OTHER -> Result(FALSE, r.exc, r.calls, r.fs, self, r.speaker, r.id)

\* lines 123-191: the outer try block; r is what its body did
SpeakExcept(r, self) ==
    CASE r.exc = "ok" -> Result(r.ret, "none", r.calls, r.fs, self, r.speaker, r.id)
      [] r.exc = "Exception" -> Result(FALSE, "none", r.calls, r.fs, self, r.speaker, r.id)
      [] OTHER -> Result(FALSE, r.exc, r.calls, r.fs, self, r.speaker, r.id)

\* lines 123-187: the body of the outer try block
SpeakBody(self, text, output_file, speaker_id, voice_file, calls, fsys) ==
    UNION {
      IF s.exc # "ok"
      THEN {[exc |-> s.exc, ret |-> FALSE, calls |-> calls \o s.calls, fs |-> fsys,
             speaker |-> s.speaker, id |-> s.id]}
      ELSE IF s.speaker = None
      THEN {[exc |-> "ok", ret |-> FALSE, calls |-> calls \o s.calls, fs |-> fsys,
             speaker |-> s.speaker, id |-> s.id]}
      ELSE {[exc |-> g.exc, ret |-> g.exc = "ok", calls |-> calls \o s.calls \o g.calls,
             fs |-> g.fs, speaker |-> s.speaker, id |-> s.id]
               : g \in Generate(self, text, output_file, s.speaker, fsys)}
      : s \in ResolveSpeaker(speaker_id, voice_file, fsys)}

\* Preconditions without the check of lines 101-104
Preconditions_SkipsTextCheck(self, text, output_file) ==
    /\ Truthy(self.interface)
    /\ Truthy(self.sampler_config)
    /\ Truthy(output_file)

\* lines 95-107: the preconditions
Preconditions(self, text, output_file) ==
    /\ Truthy(self.interface)
    /\ Truthy(self.sampler_config)
    /\ Truthy(text)
    /\ Truthy(output_file)

speak(self, text, output_file, speaker_id, voice_file, fsys) ==
    IF ~Preconditions(self, text, output_file)
    THEN {Result(FALSE, "none", <<>>, fsys, self, None, None)}
    ELSE UNION {
      IF d.exc # "ok"
      THEN {Result(FALSE, "none", d.calls, d.fs, self, None, None)}
      ELSE {SpeakExcept(b, self) :
              b \in SpeakBody(self, text, output_file, speaker_id, voice_file,
                              d.calls, d.fs)}
      : d \in EnsureOutputDir(output_file, fsys)}

(***************************************************************************)
(* TTSHandler.__init__                                                     *)
(***************************************************************************)
Handler(i, sc) == [interface |-> i, sampler_config |-> sc]

\* InitSampler absorbing a failure of SamplerConfig(...): the constructor
\* returns a handler with an interface and no sampler configuration
InitSampler_SwallowsFailure(i) ==
    IF Truthy(i)
    THEN {[raised |-> "none",
           self |-> Handler(i, IF o = "ok" THEN SamplerConfig ELSE None)] : o \in Failures}
    ELSE {[raised |-> "none", self |-> Handler(i, None)]}

\* lines 55-67: the sampler configuration, only if the interface initialized
InitSampler(i) ==
    IF Truthy(i)
    THEN {[raised |-> IF o = "ok" THEN "none" ELSE o,
           self |-> Handler(i, IF o = "ok" THEN SamplerConfig ELSE None)] : o \in Failures}
    ELSE {[raised |-> "none", self |-> Handler(i, None)]}

\* InitInterface with the `raise` of line 53 in place: the failure leaves
\* the constructor
InitInterface_Reraises ==
    UNION {
      IF a # "ok" THEN {[raised |-> a, interface |-> None]}
      ELSE {[raised |-> IF i = "ok" THEN "none" ELSE i,
             interface |-> IF i = "ok" THEN Interface ELSE None] : i \in Outcomes}
      : a \in Failures}

\* lines 33-53: the try block that builds the engine interface
InitInterface ==
    UNION {
      IF a # "ok" THEN {[raised |-> "none", interface |-> None]}
      ELSE {[raised |-> IF i = "KeyboardInterrupt" THEN i ELSE "none",
             interface |-> IF i = "ok" THEN Interface ELSE None] : i \in Outcomes}
      : a \in Failures}

TTSHandler_init ==
    UNION {
      IF t.raised # "none" THEN {[raised |-> t.raised, self |-> Handler(None, None)]}
      ELSE InitSampler(t.interface)
      : t \in InitInterface}

(***************************************************************************)
(* The record of a call of speak kept in `last`.                           *)
(***************************************************************************)
NoCall ==
    [called |-> FALSE, text |-> None, output_file |-> None, speaker_id |-> None,
     voice_file |-> None, ret |-> FALSE, raised |-> "none", calls |-> <<>>,
     speaker |-> None, final_speaker_id_to_load |-> None,
     ready |-> FALSE, voice_exists |-> FALSE, prior |-> {}]

CallRecord(self, text, output_file, speaker_id, voice_file, fsys, r) ==
    [called |-> TRUE, text |-> text, output_file |-> output_file,
     speaker_id |-> speaker_id, voice_file |-> voice_file,
     ret |-> r.ret, raised |-> r.raised, calls |-> r.calls,
     speaker |-> r.speaker, final_speaker_id_to_load |-> r.final_speaker_id_to_load,
     ready |-> Truthy(self.interface) /\ Truthy(self.sampler_config),
     voice_exists |-> ~ExistsRaises(voice_file) /\ PathExists(voice_file, fsys, OpenFds),
     prior |-> IF output_file.kind = "str"
               THEN {e \in fsys : e.path = output_file.s}   \* what was at the path
               ELSE {}]

(***************************************************************************)
(* The handler driven directly: construct it once, then call speak with    *)
(* any arguments.                                                          *)
(***************************************************************************)
Texts == {Str(<<>>), Str(<<"h", "i">>)}
OutputFiles == {None, Str(<<>>), Str(<<"out.wav">>), Str(<<CACHE_DIR, "a.wav">>), NonStr}
SpeakerIds == {None, Str(<<>>), Str(<<OTHER_VOICE>>)}
VoiceFiles ==
    {None, Str(<<"voice.wav">>), Str(<<"missing.wav">>), NonStr,
     IntValue(1), IntValue(ConfigFd), IntValue(77), HugeInt}

VoiceSample == Entry(<<"voice.wav">>, "file", <<>>)
DefaultConfig == [speaker_id |-> None, voice_file |-> None]
NoConfigFile == [kind |-> "unread", dict |-> <<>>]
NoTurn ==
    [input |-> [kind |-> "none", line |-> None], filename |-> None,
     speak_called |-> FALSE, success |-> FALSE, vanished |-> FALSE,
     play_audio_called |-> FALSE, playsound |-> "not called",
     handler |-> "none", break |-> FALSE]

Init ==
    /\ pc = "harness"
    /\ constructed = FALSE
    /\ interface = None
    /\ sampler_config = None
    /\ config = DefaultConfig
    /\ config_file = NoConfigFile
    /\ fs \in {{VoiceSample}, {VoiceSample, Entry(<<CACHE_DIR>>, "dir", <<>>)}}
    /\ clock = 0
    /\ last = NoCall
    /\ turn = NoTurn
    /\ everFailed = FALSE
    /\ printed = ""

Construct ==
    /\ pc = "harness"
    /\ ~constructed
    /\ \E r \in TTSHandler_init :
         /\ constructed' = (r.raised = "none")
         /\ interface' = r.self.interface
         /\ sampler_config' = r.self.sampler_config
    /\ UNCHANGED <<pc, config, config_file, fs, clock, last, turn, everFailed, printed>>

Speak ==
    /\ pc = "harness"
    /\ constructed
    /\ \E text \in Texts, output_file \in OutputFiles,
          speaker_id \in SpeakerIds, voice_file \in VoiceFiles :
         LET self == Handler(interface, sampler_config) IN
         \E r \in speak(self, text, output_file, speaker_id, voice_file, fs) :
           /\ last' = CallRecord(self, text, output_file, speaker_id, voice_file, fs, r)
           /\ fs' = r.fs
           /\ interface' = r.self.interface
           /\ sampler_config' = r.self.sampler_config
           /\ everFailed' = (everFailed \/ (r.raised = "none" /\ ~r.ret))
    /\ UNCHANGED <<pc, constructed, config, config_file, clock, turn, printed>>

Next == Construct \/ Speak

Spec == Init /\ [][Next]_vars

(***************************************************************************)
(* main.py: ensure_cache_dir, load_config, play_audio                      *)
(***************************************************************************)
\* lines 16-25
ensure_cache_dir(fsys) ==
    IF ~os_path_exists(<<CACHE_DIR>>, fsys)
    THEN {[ok |-> o = "ok",
           fs |-> IF o = "ok" THEN os_makedirs(<<CACHE_DIR>>, fsys) ELSE fsys]
             : o \in Failures}     \* os.makedirs raises OSError, or not
    ELSE {[ok |-> TRUE, fs |-> fsys]}

Keys == {"speaker_id", "voice_file"}

\* lines 34-38: a missing key defaults to None
EnsureKey(d, key) ==
    IF key \notin DOMAIN d
    THEN [k \in DOMAIN d \cup {key} |-> IF k = key THEN None ELSE d[k]]
    ELSE d

\* lines 39-43: a voice_file that is specified and does not exist is ignored
\* (exc is what the step raises, config what line 43 returns otherwise)
ValidateVoiceFile(cfg, fsys) ==
    IF Truthy(cfg["voice_file"])
    THEN IF ExistsRaises(cfg["voice_file"])
         THEN [exc |-> ExistsError(cfg["voice_file"]), config |-> cfg]
         ELSE IF ~PathExists(cfg["voice_file"], fsys, OpenFds \cup {ConfigFd})
              THEN [exc |-> "none", config |-> [cfg EXCEPT !["voice_file"] = None]]
              ELSE [exc |-> "none", config |-> cfg]
    ELSE [exc |-> "none", config |-> cfg]

\* lines 27-52; `file` is what config.json holds: absent, unreadable (open or
\* read raises), malformed (JSONDecodeError), a JSON value that is no object
\* (TypeError on the first item access), or an object
\* lines 31-43, the body of the try
LoadConfigTry(file, fsys) ==
    CASE file.kind = "unreadable" -> [exc |-> "OSError", config |-> DefaultConfig]
      [] file.kind = "malformed" -> [exc |-> "JSONDecodeError", config |-> DefaultConfig]
      [] file.kind = "nonobject" -> [exc |-> "TypeError", config |-> DefaultConfig]
      [] OTHER ->
           ValidateVoiceFile(EnsureKey(EnsureKey(file.dict, "speaker_id"), "voice_file"),
                             fsys)

\* LoadConfigExcept with the handler of lines 44-46 only: any other exception
\* leaves load_config
LoadConfigExcept_OnlyDecodeErrors(t) ==
    CASE t.exc = "none" -> [raised |-> "none", config |-> t.config]
      [] t.exc = "JSONDecodeError" -> [raised |-> "none", config |-> DefaultConfig]
      [] OTHER -> [raised |-> t.exc, config |-> DefaultConfig]

\* lines 44-49: `except json.JSONDecodeError`, then `except Exception`
LoadConfigExcept(t) ==
    CASE t.exc = "none" -> [raised |-> "none", config |-> t.config]
      [] t.exc = "JSONDecodeError" -> [raised |-> "none", config |-> DefaultConfig]
      [] OTHER -> [raised |-> "none", config |-> DefaultConfig]

\* lines 27-52: raised is the exception that leaves the function, config the
\* value returned when there is none
load_config(file, fsys) ==
    IF file.kind = "absent"
    THEN [raised |-> "none", config |-> DefaultConfig]
    ELSE LoadConfigExcept(LoadConfigTry(file, fsys))

\* lines 54-67
play_audio(file_path, fsys) ==
    IF os_path_exists(file_path, fsys)
    THEN {[raised |-> IF o = "KeyboardInterrupt" THEN o ELSE "none",
           playsound |-> o,
           printed |-> IF o = "Exception" THEN "Error: Could not play audio file"
                       ELSE ""] : o \in Outcomes}
    ELSE {[raised |-> "none", playsound |-> "not called",
           printed |-> "Error: Audio file not found"]}

(***************************************************************************)
(* main.py: one iteration of the loop of main()                            *)
(***************************************************************************)
UpperCase == <<"A","B","C","D","E","F","G","H","I","J","K","L","M",
               "N","O","P","Q","R","S","T","U","V","W","X","Y","Z">>
LowerCase == <<"a","b","c","d","e","f","g","h","i","j","k","l","m",
               "n","o","p","q","r","s","t","u","v","w","x","y","z">>

\* str.lower, character by character
py_lower(chars) ==
    [i \in 1..Len(chars) |->
        IF \E k \in 1..Len(UpperCase) : UpperCase[k] = chars[i]
        THEN LowerCase[CHOOSE k \in 1..Len(UpperCase) : UpperCase[k] = chars[i]]
        ELSE chars[i]]

\* IsQuit without the call of lower()
IsQuit_CaseSensitive(line) == line.s \in {<<"q","u","i","t">>, <<"e","x","i","t">>}

\* line 99
IsQuit(line) == py_lower(line.s) \in {<<"q","u","i","t">>, <<"e","x","i","t">>}

Pad2(n) == IF n < 10 THEN "0" \o ToString(n) ELSE ToString(n)

\* OutputPath with a file name that keeps the fraction of the second
OutputPath_SubSecond(now) ==
    Str(<<CACHE_DIR, "2026-01-01_00-00-" \o Pad2(now \div TicksPerSec)
                      \o "." \o Pad2(now % TicksPerSec) \o ".wav">>)

\* OutputPath without the os.path.join of line 108: the file lands in the
\* working directory
OutputPath_OutsideCache(now) ==
    Str(<<"2026-01-01_00-00-" \o Pad2(now \div TicksPerSec) \o ".wav">>)

\* lines 106-108: the timestamp to the second, ".wav", in the cache directory
OutputPath(now) ==
    Str(<<CACHE_DIR, "2026-01-01_00-00-" \o Pad2(now \div TicksPerSec) \o ".wav">>)

TurnRecord(inp, filename, called, success, vanished, played, playsound, handler, break) ==
    [input |-> inp, filename |-> filename, speak_called |-> called,
     success |-> success, vanished |-> vanished, play_audio_called |-> played,
     playsound |-> playsound, handler |-> handler, break |-> break]

\* what an iteration leaves behind
Outcome(t, fsys, call, msg) == [turn |-> t, fs |-> fsys, last |-> call, printed |-> msg]

\* AfterSpeak leaving the loop when speak returned False
AfterSpeak_BreaksOnFailure(inp, output_path, r, call) ==
    IF ~r.ret
    THEN {Outcome(TurnRecord(inp, output_path, TRUE, FALSE, FALSE, FALSE, "not called",
                             "none", TRUE),
                  r.fs, call, "Sorry, failed to generate audio for the text (check logs).")}
    ELSE UNION {
      LET fs2 == IF vanished THEN {e \in r.fs : e.path # output_path.s} ELSE r.fs IN
      {Outcome(TurnRecord(inp, output_path, TRUE, TRUE, vanished, TRUE, p.playsound,
                          p.raised, p.raised = "KeyboardInterrupt"),
               fs2, call,
               IF p.raised = "KeyboardInterrupt" THEN "Exiting..." ELSE p.printed)
         : p \in play_audio(output_path.s, fs2)}
      : vanished \in BOOLEAN}

\* AfterSpeak leaving the loop when playsound raised an Exception
AfterSpeak_PlaybackFailureFatal(inp, output_path, r, call) ==
    IF ~r.ret
    THEN {Outcome(TurnRecord(inp, output_path, TRUE, FALSE, FALSE, FALSE, "not called",
                             "none", FALSE),
                  r.fs, call, "Sorry, failed to generate audio for the text (check logs).")}
    ELSE UNION {
      LET fs2 == IF vanished THEN {e \in r.fs : e.path # output_path.s} ELSE r.fs IN
      {Outcome(TurnRecord(inp, output_path, TRUE, TRUE, vanished, TRUE, p.playsound,
                          p.raised, p.playsound # "ok"),
               fs2, call,
               IF p.raised = "KeyboardInterrupt" THEN "Exiting..." ELSE p.printed)
         : p \in play_audio(output_path.s, fs2)}
      : vanished \in BOOLEAN}

\* AfterSpeak without the `if success:` of line 120: play_audio is called
\* whatever speak returned
AfterSpeak_PlaysAlways(inp, output_path, r, call) ==
    UNION {
      LET fs2 == IF vanished THEN {e \in r.fs : e.path # output_path.s} ELSE r.fs IN
      {Outcome(TurnRecord(inp, output_path, TRUE, r.ret, vanished, TRUE, p.playsound,
                          p.raised, p.raised = "KeyboardInterrupt"),
               fs2, call,
               IF p.raised = "KeyboardInterrupt" THEN "Exiting..." ELSE p.printed)
         : p \in play_audio(output_path.s, fs2)}
      : vanished \in BOOLEAN}

\* lines 120-124, after speak returned; another process may have removed the
\* file before play_audio looks for it
AfterSpeak(inp, output_path, r, call) ==
    IF ~r.ret
    THEN {Outcome(TurnRecord(inp, output_path, TRUE, FALSE, FALSE, FALSE, "not called",
                             "none", FALSE),
                  r.fs, call, "Sorry, failed to generate audio for the text (check logs).")}
    ELSE UNION {
      LET fs2 == IF vanished THEN {e \in r.fs : e.path # output_path.s} ELSE r.fs IN
      {Outcome(TurnRecord(inp, output_path, TRUE, TRUE, vanished, TRUE, p.playsound,
                          p.raised, p.raised = "KeyboardInterrupt"),
               fs2, call,
               IF p.raised = "KeyboardInterrupt" THEN "Exiting..." ELSE p.printed)
         : p \in play_audio(output_path.s, fs2)}
      : vanished \in BOOLEAN}

\* InputRaised treating end-of-input like an interrupt: the loop ends
InputRaised_EOFEndsLoop(inp, fsys, prev) ==
    IF inp.kind = "KeyboardInterrupt"
    THEN {Outcome(TurnRecord(inp, None, FALSE, FALSE, FALSE, FALSE, "not called",
                             "KeyboardInterrupt", TRUE), fsys, prev, "Exiting...")}
    ELSE {Outcome(TurnRecord(inp, None, FALSE, FALSE, FALSE, FALSE, "not called",
                             "Exception", TRUE), fsys, prev, "Exiting...")}

\* lines 126-131, for an exception raised by input() at line 98
InputRaised(inp, fsys, prev) ==
    IF inp.kind = "KeyboardInterrupt"             \* input() interrupted: line 126
    THEN {Outcome(TurnRecord(inp, None, FALSE, FALSE, FALSE, FALSE, "not called",
                             "KeyboardInterrupt", TRUE), fsys, prev, "Exiting...")}
    ELSE                                          \* EOFError: line 129
         {Outcome(TurnRecord(inp, None, FALSE, FALSE, FALSE, FALSE, "not called",
                             "Exception", FALSE), fsys, prev,
                  "An unexpected error occurred. Check logs.")}

\* lines 97-131
loop_body(self, cfg, fsys, inp, now, prev) ==
    CASE inp.kind \in {"KeyboardInterrupt", "EOFError"} -> InputRaised(inp, fsys, prev)
      [] inp.kind = "line" /\ IsQuit(inp.line) ->
           {Outcome(TurnRecord(inp, None, FALSE, FALSE, FALSE, FALSE, "not called",
                               "none", TRUE), fsys, prev, "")}
      [] inp.kind = "line" /\ ~IsQuit(inp.line) /\ ~Truthy(inp.line) ->
           {Outcome(TurnRecord(inp, None, FALSE, FALSE, FALSE, FALSE, "not called",
                               "none", FALSE), fsys, prev, "Please enter some text.")}
      [] OTHER ->
           LET output_path == OutputPath(now) IN
           UNION {
             LET call == CallRecord(self, inp.line, output_path, cfg["speaker_id"],
                                    cfg["voice_file"], fsys, r) IN
             IF r.raised # "none"
             THEN {Outcome(TurnRecord(inp, output_path, TRUE, FALSE, FALSE, FALSE,
                                      "not called", r.raised, TRUE),
                           r.fs, call, "Exiting...")}
             ELSE AfterSpeak(inp, output_path, r, call)
             : r \in speak(self, inp.line, output_path, cfg["speaker_id"],
                           cfg["voice_file"], fsys)}

(***************************************************************************)
(* main.py: main()                                                         *)
(***************************************************************************)
ConfigVoiceFiles ==
    {None, Str(<<>>), Str(<<"voice.wav">>), Str(<<"missing.wav">>),
     Str(<<CONFIG_FILE>>), NonStr,
     IntValue(0), IntValue(1), IntValue(ConfigFd), IntValue(77), HugeInt}
ConfigSpeakerIds == {None, Str(<<OTHER_VOICE>>)}

\* with both keys there: a voice_file the validation keeps, one it replaces
\* by null, one its os.path.exists raises on
BothKeysVoiceFiles == {Str(<<"voice.wav">>), Str(<<"missing.wav">>), NonStr}

\* the objects config.json may hold: any subset of the keys; with both keys
\* there, speaker_id is a string (null is read like the missing key)
ConfigDicts ==
    UNION {{d \in [D -> ConfigVoiceFiles \cup ConfigSpeakerIds] :
               /\ "voice_file" \in D => d["voice_file"] \in ConfigVoiceFiles
               /\ "speaker_id" \in D => d["speaker_id"] \in ConfigSpeakerIds
               /\ D = Keys => /\ d["speaker_id"] # None
                              /\ d["voice_file"] \in BothKeysVoiceFiles}
           : D \in SUBSET Keys}

\* config.json as an entry of the working directory, when it is there
ConfigEntry == Entry(<<CONFIG_FILE>>, "file", <<>>)

ConfigFiles ==
    {[kind |-> k, dict |-> <<>>] : k \in {"absent", "unreadable", "malformed", "nonobject"}}
    \cup {[kind |-> "object", dict |-> d] : d \in ConfigDicts}

Line(chars) == [kind |-> "line", line |-> Str(chars)]

Inputs ==
    {Line(<<>>), Line(<<"q","u","i","t">>), Line(<<"Q","U","I","T">>),
     Line(<<"E","x","i","t">>), Line(<<"h","i">>), Line(<<"q","u","i","t"," ">>),
     [kind |-> "KeyboardInterrupt", line |-> None],
     [kind |-> "EOFError", line |-> None]}

MainInit ==
    /\ pc = "ensure_cache_dir"
    /\ constructed = FALSE
    /\ interface = None
    /\ sampler_config = None
    /\ config = DefaultConfig
    /\ config_file = NoConfigFile
    /\ fs \in {{VoiceSample}, {VoiceSample, Entry(<<CACHE_DIR>>, "dir", <<>>)}}
    /\ clock = 0
    /\ last = NoCall
    /\ turn = NoTurn
    /\ everFailed = FALSE
    /\ printed = ""

\* lines 72-74
EnsureCacheDir ==
    /\ pc = "ensure_cache_dir"
    /\ \E r \in ensure_cache_dir(fs) :
         /\ fs' = r.fs
         /\ pc' = IF r.ok THEN "TTSHandler" ELSE "exit"
         /\ printed' = IF r.ok THEN "Initializing TTS Handler (this might take a while)..."
                       ELSE "Failed to create cache directory. Exiting."
    /\ UNCHANGED <<constructed, interface, sampler_config, config, config_file,
                   clock, last, turn, everFailed>>

\* lines 77-92: construct the handler and check that it initialized
InitHandler ==
    /\ pc = "TTSHandler"
    /\ \E r \in TTSHandler_init :
         /\ constructed' = (r.raised = "none")
         /\ interface' = r.self.interface
         /\ sampler_config' = r.self.sampler_config
         /\ pc' = CASE r.raised = "KeyboardInterrupt" -> "crashed"   \* not caught at line 79
                    [] r.raised = "Exception" -> "exit"
                    [] OTHER -> IF Truthy(r.self.interface) THEN "load_config" ELSE "exit"
         /\ printed' = CASE r.raised = "KeyboardInterrupt" -> printed
                         [] r.raised = "Exception" ->        \* lines 81-82, the last one
                              "Please check your outetts installation, model downloads, and configurations."
                         [] OTHER -> IF Truthy(r.self.interface)
                                     THEN "Type 'quit' or 'exit' to stop."
                                     ELSE "FATAL: TTS Interface could not be initialized (check logs for details). Exiting."
    /\ UNCHANGED <<config, config_file, fs, clock, last, turn, everFailed>>

\* line 94
LoadConfig ==
    /\ pc = "load_config"
    /\ \E file \in ConfigFiles :
         /\ config_file' = file
         /\ LET fsys == IF file.kind = "absent" THEN fs ELSE fs \cup {ConfigEntry}
                r == load_config(file, fsys) IN
              /\ fs' = fsys           \* config.json is in the working directory
              /\ config' = IF r.raised = "none" THEN r.config ELSE config
              /\ pc' = IF r.raised = "none" THEN "loop" ELSE "crashed"
    /\ UNCHANGED <<constructed, interface, sampler_config, clock, last, turn,
                   everFailed, printed>>

\* lines 99-106: datetime.now() is called only for text that is spoken; the
\* reading is any time, the clock may have been set back
ClockReadings(inp) ==
    IF inp.kind = "line" /\ ~IsQuit(inp.line) /\ Truthy(inp.line)
    THEN 0..MaxClock ELSE {clock}

\* lines 96-131: one iteration
Turn ==
    /\ pc = "loop"
    /\ \E inp \in Inputs : \E now \in ClockReadings(inp) :
         \E o \in loop_body(Handler(interface, sampler_config), config, fs, inp, now, last) :
           /\ turn' = o.turn
           /\ fs' = o.fs
           /\ last' = o.last
           /\ printed' = o.printed
           /\ clock' = IF o.turn.filename # None THEN now ELSE clock
           /\ pc' = IF o.turn.break THEN "exit" ELSE "loop"
    /\ UNCHANGED <<constructed, interface, sampler_config, config, config_file,
                   everFailed>>

MainNext == EnsureCacheDir \/ InitHandler \/ LoadConfig \/ Turn

MainSpec == MainInit /\ [][MainNext]_vars

(***************************************************************************)
(* Properties of speak, read off the record of the last call.              *)
(***************************************************************************)
CallsOf(op) == {i \in 1..Len(last.calls) : last.calls[i].op = op}
Count(op) == Cardinality(CallsOf(op))
Threw(op) == \E i \in CallsOf(op) : last.calls[i].out = "Exception"
Succeeded(op) == \E i \in CallsOf(op) : last.calls[i].out = "ok"
Interrupted == \E i \in 1..Len(last.calls) : last.calls[i].out = "KeyboardInterrupt"

\* the last call passed the four preconditions and got past the directory step
ReachedResolution ==
    /\ last.called /\ last.ready
    /\ Truthy(last.text) /\ Truthy(last.output_file)
    /\ last.output_file.kind = "str"
    /\ ~Threw("makedirs")

\* after create_speaker returned, os.path.basename raised TypeError on a
\* voice_file that is an int (line 129)
TypeErrorInBasename ==
    last.called /\ Succeeded("create_speaker") /\ last.voice_file.kind = "int"

\* C1: a call whose voice_file is set and exists and whose create_speaker
\* succeeds hands the cloned profile to generation and never calls
\* load_default_speaker, whatever speaker_id is.
C1_ClonePrecedence ==
    (last.called /\ Succeeded("create_speaker")) =>
        /\ Truthy(last.voice_file) /\ last.voice_exists
        /\ Count("load_default_speaker") = 0
        /\ last.speaker = ClonedSpeaker(last.voice_file)
        /\ \A i \in CallsOf("GenerationConfig") \cup CallsOf("generate") :
              last.calls[i].arg = ClonedSpeaker(last.voice_file)

\* what the code does where C1 fails: the conclusion of C1 holds for every
\* voice_file that is a path string; for an int that passes the existence
\* test as an open file descriptor, the profile create_speaker returned is
\* dropped (lines 129-134) and the target identifier is loaded.
C1_ClonePrecedenceForPaths ==
    (last.called /\ Succeeded("create_speaker")) =>
        /\ Truthy(last.voice_file) /\ last.voice_exists
        /\ last.voice_file.kind = "str" =>
              /\ Count("load_default_speaker") = 0
              /\ last.speaker = ClonedSpeaker(last.voice_file)
              /\ \A i \in CallsOf("GenerationConfig") \cup CallsOf("generate") :
                    last.calls[i].arg = ClonedSpeaker(last.voice_file)
        /\ last.voice_file.kind # "str" =>
              /\ TypeErrorInBasename
              /\ Count("load_default_speaker") = 1
              /\ last.speaker # ClonedSpeaker(last.voice_file)
              /\ \A i \in CallsOf("GenerationConfig") \cup CallsOf("generate") :
                    last.calls[i].arg = DefaultSpeaker(last.final_speaker_id_to_load)

C1_Witness ==
    /\ last.called /\ Succeeded("create_speaker")
    /\ last.voice_file = Str(<<"voice.wav">>)
    /\ last.speaker_id = Str(<<OTHER_VOICE>>)
    /\ Succeeded("generate") /\ last.ret

\* C2: a call in which create_speaker throws calls create_speaker exactly once
\* and then load_default_speaker exactly once, with the target identifier;
\* cloning is not attempted again, also when the identifier load fails.
C2_CloneFailureFallsThroughOnce ==
    (last.called /\ Threw("create_speaker")) =>
        /\ Count("create_speaker") = 1
        /\ Count("load_default_speaker") = 1
        /\ \A i \in CallsOf("create_speaker"), j \in CallsOf("load_default_speaker") :
              /\ j = i + 1
              /\ last.calls[j].arg = last.final_speaker_id_to_load
              /\ Truthy(last.calls[j].arg)

C2_Witness ==
    /\ last.called /\ Threw("create_speaker") /\ Threw("load_default_speaker")
    /\ last.raised = "none" /\ ~last.ret

\* C3: whenever speak reaches identifier loading (voice_file unset, missing at
\* call time, or cloning failed) it calls load_default_speaker with speaker_id
\* if one was provided and with DEFAULT_VOICE otherwise.
C3_TargetIdentifier ==
    /\ \A j \in CallsOf("load_default_speaker") :
          last.calls[j].arg = IF Truthy(last.speaker_id) THEN last.speaker_id
                              ELSE Str(<<DEFAULT_VOICE>>)
    /\ (ReachedResolution
          /\ (~Truthy(last.voice_file)
                \/ (~ExistsRaises(last.voice_file) /\ ~last.voice_exists)
                \/ Threw("create_speaker")
                \/ TypeErrorInBasename))
       => Count("load_default_speaker") = 1

C3_Witness ==
    /\ last.called /\ last.voice_file = None /\ last.speaker_id = None
    /\ \E j \in CallsOf("load_default_speaker") :
          last.calls[j].arg = Str(<<DEFAULT_VOICE>>) /\ last.calls[j].out = "ok"

\* C4: if load_default_speaker throws, speak returns False without loading
\* any other identifier and without calling generate or save, whether the
\* identifier was the caller's speaker_id or DEFAULT_VOICE.
C4_NoFallbackAfterLoadFailure ==
    (last.called /\ Threw("load_default_speaker")) =>
        /\ last.raised = "none" /\ ~last.ret
        /\ Count("load_default_speaker") = 1
        /\ Count("GenerationConfig") = 0
        /\ Count("generate") = 0
        /\ Count("save") = 0
        /\ last.speaker = None

C4_Witness ==
    /\ last.called /\ Threw("load_default_speaker")
    /\ last.speaker_id = Str(<<OTHER_VOICE>>)
    /\ last.final_speaker_id_to_load = Str(<<OTHER_VOICE>>)
    /\ ~last.ret

\* a step of the last call raised an Exception: an engine or file system
\* call, os.path.dirname on an output_file that is no str, os.path.exists on
\* a voice_file that is no str and no file descriptor, or os.path.basename on
\* one that is an int
TypeErrorInDirname ==
    /\ last.called /\ last.ready /\ Truthy(last.text) /\ Truthy(last.output_file)
    /\ last.output_file.kind # "str"
TypeErrorInExists ==
    ReachedResolution /\ Truthy(last.voice_file) /\ ExistsRaises(last.voice_file)
AnyStepThrew ==
    \/ \E i \in 1..Len(last.calls) : last.calls[i].out = "Exception"
    \/ TypeErrorInDirname \/ TypeErrorInExists \/ TypeErrorInBasename
StepOtherThanCloneThrew ==
    \/ \E i \in 1..Len(last.calls) :
          last.calls[i].out = "Exception" /\ last.calls[i].op # "create_speaker"
    \/ TypeErrorInDirname \/ TypeErrorInExists

\* the steps behind a True result, in order: the parent directory is there, a
\* speaker was resolved, then GenerationConfig, generate and save succeeded
SuccessChain ==
    LET n == Len(last.calls) IN
    /\ ReachedResolution
    /\ \/ os_path_dirname(last.output_file.s) = <<>>
       \/ os_path_exists(os_path_dirname(last.output_file.s), fs)
    /\ last.speaker # None
    /\ n >= 4
    /\ last.calls[n - 3].op \in {"create_speaker", "load_default_speaker"}
    /\ last.calls[n - 3].out = "ok"
    /\ last.calls[n - 2] = Call("GenerationConfig", last.speaker, "ok")
    /\ last.calls[n - 1] = Call("generate", last.speaker, "ok")
    /\ last.calls[n] = Call("save", last.output_file, "ok")
    /\ \A i \in 1..(n - 4) : last.calls[i].op \in {"makedirs", "create_speaker"}
    /\ Entry(last.output_file.s, "file", last.text.s) \in fs

\* C5 as stated: speak propagates no exception, a call in which any step
\* throws (directory creation, the voice_file existence check, create_speaker,
\* load_default_speaker, GenerationConfig, generate, save) returns False, and a
\* call returns True only after the directory was ensured, a speaker was
\* resolved, generate succeeded and save succeeded, in that order.
C5_EveryThrowReturnsFalse ==
    last.called =>
        /\ last.raised # "Exception"
        /\ (AnyStepThrew /\ ~Interrupted) => (last.raised = "none" /\ ~last.ret)
        /\ last.ret => SuccessChain

\* C5 amended: speak propagates no Exception (only an interrupt passes
\* through); a call in which a step other than create_speaker throws returns
\* False; a call in which the cloning step throws (create_speaker, or
\* os.path.basename on an int voice_file right after it) goes on to identifier
\* loading and may return True; a call returns True only after the steps above.
C5_ThrowReturnsFalseExceptClone ==
    last.called =>
        /\ last.raised # "Exception"
        /\ last.raised # "none" => Interrupted
        /\ (StepOtherThanCloneThrew /\ ~Interrupted) => (last.raised = "none" /\ ~last.ret)
        /\ (AnyStepThrew /\ ~Interrupted) => last.raised = "none"
        /\ last.ret => SuccessChain

C5_Witness ==
    /\ last.called /\ Threw("create_speaker") /\ Succeeded("load_default_speaker")
    /\ last.ret

\* C6: speak returns False and writes no output file when the text is empty,
\* when the interface is uninitialized, or when cloning and identifier loading
\* both fail; when a precondition fails (interface, sampler, text, output
\* path) it returns before any engine operation and any directory creation.
BothFailed(c) ==
    /\ \E i \in 1..Len(c.calls) :
          c.calls[i].op = "create_speaker" /\ c.calls[i].out = "Exception"
    /\ \E i \in 1..Len(c.calls) :
          c.calls[i].op = "load_default_speaker" /\ c.calls[i].out = "Exception"

C6_Step(c, before, after) ==
    /\ (c.called /\ (~Truthy(c.text) \/ ~c.ready \/ BothFailed(c))) =>
          /\ c.raised = "none" /\ ~c.ret
          /\ \A i \in 1..Len(c.calls) : c.calls[i].op # "save"
          /\ Files(after) = Files(before)
    /\ (c.called /\ (~c.ready \/ ~Truthy(c.text) \/ ~Truthy(c.output_file))) =>
          /\ c.raised = "none" /\ ~c.ret
          /\ c.calls = <<>>
          /\ after = before

C6_FailsWithoutOutput == [][C6_Step(last', fs, fs')]_vars

C6_Witness ==
    /\ BothFailed(last) /\ Succeeded("makedirs") /\ ~last.ret
    /\ ~os_path_exists(last.output_file.s, fs)

\* C7: once constructed, interface and sampler_config never change, whatever
\* speak returns; a handler whose interface is not set answers every speak
\* with False and makes no engine call.
C7_LifecycleFixed ==
    [][constructed =>
         /\ constructed'
         /\ interface' = interface
         /\ sampler_config' = sampler_config
         /\ (~Truthy(interface) /\ last'.called) =>
               (~last'.ret /\ last'.raised = "none" /\ last'.calls = <<>>)]_vars

C7_Witness ==
    /\ constructed /\ Truthy(interface) /\ Truthy(sampler_config)
    /\ everFailed /\ last.called /\ last.ret

(***************************************************************************)
(* Properties of the loop of main().                                       *)
(***************************************************************************)
QuitLines == {Str(<<"q","u","i","t">>), Str(<<"Q","U","I","T">>), Str(<<"E","x","i","t">>)}

\* C8: a line that is 'quit' or 'exit' in any letter case ends the loop with
\* no call of speak or playback; a blank line re-prompts with no call of speak
\* or playback and no file name generated.
C8_QuitAndBlank ==
    /\ (turn.input.kind = "line" /\ turn.input.line \in QuitLines) =>
          /\ turn.break /\ pc = "exit"
          /\ ~turn.speak_called /\ ~turn.play_audio_called
          /\ turn.playsound = "not called" /\ turn.filename = None
    /\ (turn.input.kind = "line" /\ turn.input.line = Str(<<>>)) =>
          /\ ~turn.break /\ pc = "loop"
          /\ ~turn.speak_called /\ ~turn.play_audio_called
          /\ turn.playsound = "not called" /\ turn.filename = None

C8_Witness ==
    /\ turn.input.kind = "line" /\ turn.input.line = Str(<<"Q","U","I","T">>)
    /\ pc = "exit" /\ ~turn.speak_called

\* C9: the loop ends only on a quit/exit line or a KeyboardInterrupt; a turn
\* in which speak returned False, playback failed, the file was missing at
\* playback time, or another exception was raised is followed by the prompt.
FailureTurn(t) ==
    /\ t.handler # "KeyboardInterrupt"
    /\ \/ t.speak_called /\ ~t.success
       \/ t.playsound = "Exception"
       \/ t.play_audio_called /\ t.playsound = "not called"
       \/ t.handler = "Exception"

C9_LoopEndsOnlyOnQuitOrInterrupt ==
    [][pc = "loop" =>
         /\ pc' # "loop" =>
               /\ pc' = "exit" /\ turn'.break
               /\ \/ turn'.input.kind = "line" /\ turn'.input.line \in QuitLines
                  \/ turn'.handler = "KeyboardInterrupt"
         /\ FailureTurn(turn') => pc' = "loop"]_vars

C9_Witness ==
    /\ pc = "loop" /\ turn.play_audio_called /\ turn.playsound = "Exception"
    /\ turn.handler = "none"

\* C10: in every configuration load_config returns, voice_file is None or a
\* path that existed when the configuration was loaded.
C10_VoiceFileNoneOrExisting ==
    config_file.kind # "unread" =>
        \/ config["voice_file"] = None
        \/ /\ config["voice_file"].kind = "str"
           /\ os_path_exists(config["voice_file"].s, fs)

\* the last turn read a line that is neither blank nor quit/exit
Accepted ==
    /\ turn.input.kind = "line"
    /\ turn.input.line \notin QuitLines
    /\ turn.input.line # Str(<<>>)

\* C11 as stated: every accepted line results in one call of speak with a
\* timestamp-named path in the cache directory, one generated file and one
\* playback attempt.
C11_OneFileOnePlayback ==
    (Accepted /\ turn.handler = "none") =>
        /\ turn.speak_called /\ last.called
        /\ last.text = turn.input.line /\ last.output_file = turn.filename
        /\ os_path_dirname(turn.filename.s) = <<CACHE_DIR>>
        /\ Count("save") = 1 /\ Succeeded("save")
        /\ turn.play_audio_called

\* C11 amended: every accepted line results in one call of speak with a
\* timestamp-named path in the cache directory; when speak returns True one
\* file was saved at that path and play_audio is called once; when speak
\* returns False no file was saved and playback is not attempted.
C11_OneFileOnePlaybackOnSuccess ==
    Accepted =>
        /\ turn.speak_called /\ last.called
        /\ last.text = turn.input.line /\ last.output_file = turn.filename
        /\ os_path_dirname(turn.filename.s) = <<CACHE_DIR>>
        /\ Count("save") <= 1
        /\ \A i \in CallsOf("save") : last.calls[i].arg = turn.filename
        /\ turn.handler = "none" =>
              /\ turn.success = last.ret
              /\ last.ret <=> (Count("save") = 1 /\ Succeeded("save"))
              /\ last.ret <=> turn.play_audio_called
              /\ ~last.ret => turn.playsound = "not called"
              /\ (last.ret /\ ~turn.vanished) =>
                    Entry(turn.filename.s, "file", turn.input.line.s) \in fs

C11_Witness ==
    /\ Accepted /\ turn.success /\ turn.playsound = "ok"
    /\ Entry(turn.filename.s, "file", turn.input.line.s) \in fs

\* C12: load_config never raises; for a missing file, a read error,
\* malformed JSON or JSON that is no object it returns the default
\* configuration; every value it returns holds both keys.
C12_LoadConfigTotal ==
    config_file # NoConfigFile =>
        /\ pc # "crashed"
        /\ Keys \subseteq DOMAIN config
        /\ config_file.kind \in {"absent", "unreadable", "malformed", "nonobject"}
              => config = DefaultConfig

C12_Witness ==
    /\ config_file.kind = "nonobject"
    /\ pc = "loop"
    /\ config = DefaultConfig

\* main() has returned (exit) or was left by an uncaught exception (crashed)
Terminated == pc \in {"exit", "crashed"}

\* the user ended the loop: a quit/exit line, or an interrupt during a turn
UserEnded ==
    /\ turn.break
    /\ \/ turn.input.kind = "line" /\ turn.input.line \in QuitLines
       \/ turn.handler = "KeyboardInterrupt"

\* lines 79-88: the handler could not be constructed or has no interface
EngineFatal ==
    /\ pc = "exit" /\ turn = NoTurn /\ config_file = NoConfigFile
    /\ printed \in {"Please check your outetts installation, model downloads, and configurations.",
                    "FATAL: TTS Interface could not be initialized (check logs for details). Exiting."}

\* an interrupt during construction is not caught at line 79
InterruptedAtStartup ==
    /\ pc = "crashed" /\ ~constructed /\ turn = NoTurn /\ config_file = NoConfigFile

\* lines 72-74: the cache directory could not be created
CacheDirFatal ==
    /\ pc = "exit" /\ turn = NoTurn /\ config_file = NoConfigFile /\ ~constructed
    /\ printed = "Failed to create cache directory. Exiting."
    /\ ~os_path_exists(<<CACHE_DIR>>, fs)

\* C13 as stated: failure to construct the engine is the only failure that
\* makes the program terminate (besides it, only the user ends the program).
C13_OnlyEngineFailureFatal ==
    Terminated => (UserEnded \/ EngineFatal \/ InterruptedAtStartup)

\* C13 amended: failure to create the cache directory at startup and failure
\* to construct the engine are the only failures that make the program
\* terminate; a failure of configuration load, cloning, speaker load,
\* generation, file save or playback never does.
C13_OnlyStartupFailuresFatal ==
    Terminated => (UserEnded \/ EngineFatal \/ InterruptedAtStartup \/ CacheDirFatal)

C13_Witness == CacheDirFatal

\* C14: when a speaker_id is provided and loading that identifier fails,
\* speak goes on to load DEFAULT_VOICE before giving up (the docstring of
\* speak, tts.py:81-82).
C14_FallsBackToDefault ==
    (/\ last.called
     /\ Truthy(last.speaker_id) /\ last.speaker_id # Str(<<DEFAULT_VOICE>>)
     /\ \E i \in CallsOf("load_default_speaker") :
           last.calls[i].arg = last.speaker_id /\ last.calls[i].out = "Exception")
    => \E j \in CallsOf("load_default_speaker") :
           last.calls[j].arg = Str(<<DEFAULT_VOICE>>)

\* the constructor has run and ended (not by an interrupt) with no interface:
\* auto_config or Interface raised an Exception
InterfaceFailed ==
    /\ pc \notin {"ensure_cache_dir", "TTSHandler", "crashed"}
    /\ printed # "Failed to create cache directory. Exiting."
    /\ ~Truthy(interface)

\* C15: if construction of the engine interface fails, the constructor
\* returns a handler in the Failed state (it does not raise), and main
\* terminates with a message before it loads the configuration, reads a line
\* or calls speak or playback.
C15_InterfaceFailureExitsEarly ==
    InterfaceFailed =>
        /\ constructed
        /\ sampler_config = None
        /\ pc = "exit"
        /\ printed = "FATAL: TTS Interface could not be initialized (check logs for details). Exiting."
        /\ config_file = NoConfigFile
        /\ turn = NoTurn
        /\ last = NoCall

C15_Witness ==
    /\ InterfaceFailed
    /\ constructed /\ pc = "exit"

\* C16: for an accepted line, play_audio is called if and only if speak
\* returned True; when speak returned False the failure message is printed
\* and play_audio is not called; play_audio calls playsound only if the file
\* exists when it looks.
C16_PlaybackIffSuccess ==
    (Accepted /\ last.called /\ last.raised = "none") =>
        /\ turn.play_audio_called <=> last.ret
        /\ ~last.ret =>
              /\ printed = "Sorry, failed to generate audio for the text (check logs)."
              /\ turn.playsound = "not called"
        /\ turn.playsound # "not called" =>
              /\ turn.play_audio_called
              /\ ~turn.vanished
              /\ turn.playsound = "ok" =>
                    \E e \in Files(fs) : e.path = turn.filename.s
        /\ (turn.play_audio_called /\ turn.vanished) =>
              /\ turn.playsound = "not called"
              /\ printed = "Error: Audio file not found"
              /\ ~os_path_exists(turn.filename.s, fs)

C16_Witness ==
    /\ Accepted /\ last.ret
    /\ turn.play_audio_called /\ turn.vanished /\ turn.playsound = "not called"

\* the audio files in the cache directory
Artifacts(fsys) == {e \in Files(fsys) : os_path_dirname(e.path) = <<CACHE_DIR>>}

\* the output path of the last request depends on the second of the clock
\* reading only: every reading in the same second gives it, no other does
PathOfSecondOnly ==
    turn.filename # None =>
        \A n \in 0..MaxClock :
            (n \div TicksPerSec = clock \div TicksPerSec) <=> (OutputPath(n) = turn.filename)

\* a request that succeeded leaves its own text as the one entry at its path
Overwrites ==
    (Accepted /\ turn.success /\ ~turn.vanished) =>
        {e \in fs : e.path = turn.filename.s}
            = {Entry(turn.filename.s, "file", turn.input.line.s)}

\* the seconds whose output path is p
SecondsOf(p) == {n \div TicksPerSec : n \in {m \in 0..MaxClock : OutputPath(m).s = p}}

\* every artifact is the file of one second, and no two artifacts are files
\* of the same second, in whatever order the clock readings came
OnePerSecond ==
    /\ \A e \in Artifacts(fs) : Cardinality(SecondsOf(e.path)) = 1
    /\ \A e1, e2 \in Artifacts(fs) :
          SecondsOf(e1.path) \cap SecondsOf(e2.path) # {} => e1 = e2

\* a step removes no artifact, unless another process removed the file of this
\* turn before playback
NeverDeletes ==
    \A e \in Artifacts(fs) :
        \/ \E e2 \in Artifacts(fs') : e2.path = e.path
        \/ turn'.vanished /\ turn'.filename = Str(e.path)

\* C17: the output path of a request is a function of the clock reading
\* truncated to the second; a successful request overwrites what an earlier
\* request of the same second left at the path; the cache holds at most one
\* artifact per distinct second; the program never deletes an artifact.
C17_OneArtifactPerSecond ==
    /\ [](PathOfSecondOnly /\ Overwrites /\ OnePerSecond)
    /\ [][NeverDeletes]_vars

\* a second request of one second has replaced the file of the first, and
\* the file of a later second, written before it, is still there
C17_Witness ==
    /\ clock \div TicksPerSec = 0
    /\ \E e \in Artifacts(fs) : e.path = OutputPath(MaxClock).s
    /\ Accepted /\ turn.success /\ ~turn.vanished
    /\ \E e \in last.prior : e.type = "file" /\ e.data # turn.input.line.s
    /\ Entry(turn.filename.s, "file", turn.input.line.s) \in fs
    /\ Cardinality(Artifacts(fs)) = 2

\* C18: a read of input that fails with EOFError is handled by the generic
\* handler and the loop goes on: no call of speak or playback, nothing
\* written, no termination. So if every read fails this way the loop prompts
\* again without end.
C18_EofKeepsLooping ==
    [][(pc = "loop" /\ turn'.input.kind = "EOFError") =>
          /\ pc' = "loop"
          /\ turn'.handler = "Exception" /\ ~turn'.break
          /\ ~turn'.speak_called /\ ~turn'.play_audio_called
          /\ turn'.filename = None
          /\ last' = last /\ fs' = fs /\ clock' = clock
          /\ printed' = "An unexpected error occurred. Check logs."]_vars

\* a read failed with EOFError and the loop is still running
C18_Witness ==
    /\ pc = "loop"
    /\ turn.input.kind = "EOFError" /\ turn.handler = "Exception"
    /\ printed = "An unexpected error occurred. Check logs."

\* C19: in a constructed handler sampler_config is set if and only if
\* interface is set; so a call of speak passes both readiness checks exactly
\* when the interface is set, and the sampler check is never the first to
\* fail.
C19_SamplerIffInterface ==
    constructed =>
        /\ Truthy(sampler_config) <=> Truthy(interface)
        /\ last.called => (last.ready <=> Truthy(interface))
        /\ (last.called /\ ~last.ready) => (~Truthy(interface) /\ ~last.ret /\ last.calls = <<>>)

C19_Witness ==
    /\ constructed /\ last.called
    /\ Truthy(interface) /\ Truthy(sampler_config) /\ last.ready /\ last.ret

====
